---- MODULE Spec2Model ----
\* Verification model of cupbearer's stored-config loaders
\* (cupbearer/detectors/config.py, cupbearer/models/__init__.py,
\* cupbearer/utils/scripts.py), of BackdoorData.get_transforms
\* (cupbearer/data/backdoor_data.py) and of the abstraction trainer
\* (abstractions/train_abstraction.py).
EXTENDS Integers, Sequences, FiniteSets, TLC

VARIABLES
    \* ---- persisted configs and the interpreter's call stack ----
    fs,        \* path -> contents of <path>/config.yaml
    stack,     \* call stack of StoredDetector.build / StoredModel.build_model frames
    exc,       \* the exception being propagated, "none" when there is none
    result,    \* outcome of the top-level call
    log,       \* what the calls did, in order
    lc,        \* outcome of a direct load_config call
    \* ---- apply_model ----
    am,        \* what apply_model is called on
    am_out,    \* what the call gave
    \* ---- train_epoch and train_and_evaluate ----
    config,        \* the hyperparameters and what the run finds on disk
    train_loader,  \* the batches of the training loader, in its order
    test_loader,   \* the batches of the held-out loader
    heap,          \* the TrainState objects created so far
    tr,            \* the frame of train_and_evaluate
    ep,            \* the frame of train_epoch
    sink,          \* the report_scalar calls made on metrics_logger
    \* ---- BackdoorData ----
    dataset,   \* the BackdoorData config in memory
    dataset0,  \* the config as it was constructed
    disk,      \* the config document stored to disk, <<>> when none is
    got,       \* what the last get_transforms call returned, and self before and after it
    ops        \* how many calls, stores and reloads there have been

storedVars == <<fs, stack, exc, result, log, lc>>
lossVars == <<am, am_out>>
trainVars == <<config, train_loader, test_loader, heap, tr, ep, sink>>
dataVars == <<dataset, dataset0, disk, got, ops>>
vars == <<storedVars, lossVars, trainVars, dataVars>>

\* ------------------------------------------------------------------
\* Bounds
\* ------------------------------------------------------------------
\* number of directories holding a config.yaml
NumPaths == 2
\* the interpreter's limit on nested calls (sys.getrecursionlimit(), scaled)
RecursionLimit == 5

Paths == 1..NumPaths

\* ------------------------------------------------------------------
\* Config classes (the dataclasses of the config graph)
\* ------------------------------------------------------------------
Classes == {"BaseConfig", "ScriptConfig", "DetectorConfig",
            "ActivationBasedDetectorConfig", "StoredDetector",
            "ModelConfig", "StoredModel", "MLP", "CNN", "NoneType"}

\* direct base classes, from the class statements
Bases(cls) ==
    CASE cls = "ScriptConfig" -> {"BaseConfig"}
      [] cls = "DetectorConfig" -> {"BaseConfig"}
      [] cls = "ActivationBasedDetectorConfig" -> {"DetectorConfig"}
      [] cls = "StoredDetector" -> {"DetectorConfig"}
      [] cls = "ModelConfig" -> {"BaseConfig"}
      [] cls = "StoredModel" -> {"ModelConfig"}
      [] cls = "MLP" -> {"ModelConfig"}
      [] cls = "CNN" -> {"ModelConfig"}
      [] OTHER -> {}

RECURSIVE Ancestors(_)
Ancestors(cls) ==
    {cls} \cup UNION {Ancestors(b) : b \in Bases(cls)}

\* isinstance(obj, expected_type)
IsInstance(obj, expected_type) == expected_type \in Ancestors(obj.cls)

\* a config object; path is 0 for the classes that have no path field
Obj(cls, path) == [cls |-> cls, path |-> path]
NoneObj == Obj("NoneType", 0)

SubConfigs ==
    {Obj("ActivationBasedDetectorConfig", 0), Obj("MLP", 0), Obj("CNN", 0), NoneObj}
    \cup {Obj("StoredDetector", q) : q \in Paths}
    \cup {Obj("StoredModel", q) : q \in Paths}

\* contents of a config.yaml: no file at all, or a ScriptConfig with at most
\* one of the fields "detector" and "model"
NoFile == [exists |-> FALSE, cls |-> "NoneType", field |-> "", value |-> NoneObj]
FileContents ==
    {NoFile}
    \cup {[exists |-> TRUE, cls |-> "ScriptConfig", field |-> "", value |-> NoneObj]}
    \cup {[exists |-> TRUE, cls |-> "ScriptConfig", field |-> f, value |-> v] :
             f \in {"detector", "model"}, v \in SubConfigs}

\* what detector.load_weights(<path>/detector) can find there: the weights, no
\* file (FileNotFoundError), or a file it cannot read (any other exception)
WeightStates == {"present", "absent", "corrupt"}

\* ------------------------------------------------------------------
\* load_config
\* ------------------------------------------------------------------
Raised(e) == [raised |-> TRUE, exc |-> e, value |-> NoneObj]
Value(v) == [raised |-> FALSE, exc |-> "none", value |-> v]

\* hasattr(cfg, name)
HasAttr(file, name) == file.field = name

\* load_config(path, name, expected_type); name = "" stands for name=None
LoadConfigUnchecked(files, path, name, expected_type) ==
    LET file == files[path]
        cfg == Obj(file.cls, 0)
    IN  IF ~file.exists THEN Raised("FileNotFoundError")
        ELSE IF name = "" THEN Value(cfg)
        ELSE IF ~HasAttr(file, name) THEN Raised("ValueError")
        ELSE Value(file.value)

LoadConfig(files, path, name, expected_type) ==
    LET file == files[path]
        cfg == Obj(file.cls, 0)
    IN  IF ~file.exists THEN Raised("FileNotFoundError")
        ELSE IF name = ""
        THEN IF ~IsInstance(cfg, expected_type) THEN Raised("ValueError")
             ELSE Value(cfg)
        ELSE IF ~HasAttr(file, name) THEN Raised("ValueError")
        ELSE LET sub_cfg == file.value
             IN  IF ~IsInstance(sub_cfg, expected_type) THEN Raised("ValueError")
                 ELSE Value(sub_cfg)

NoResult == [status |-> "none", exc |-> "none", fn |-> "", path |-> 0]

\* no stored config is being built
StoredStart ==
    /\ stack = <<>>
    /\ exc = "none"
    /\ result = NoResult
    /\ log = <<>>
    /\ lc = [called |-> FALSE, path |-> 0, name |-> "",
             expected_type |-> "", out |-> Value(NoneObj)]

StoredIdle ==
    /\ fs = [p \in Paths |-> NoFile]
    /\ StoredStart

\* ------------------------------------------------------------------
\* apply_model (abstractions/train_abstraction.py)
\* ------------------------------------------------------------------
\* the most layers an abstraction has
MaxLayers == 3
\* the class count the shape assertion is written for
NumClasses == 10

\* exact fractions, for the means
Rat(n, d) == [num |-> n, den |-> d]
RatAdd(a, b) == Rat(a.num * b.den + b.num * a.den, a.den * b.den)
RatDiv(a, k) == Rat(a.num, a.den * k)
RatEq(a, b) == a.num * b.den = b.num * a.den

RECURSIVE SeqSum(_)
SeqSum(q) == IF q = <<>> THEN 0 ELSE Head(q) + SeqSum(Tail(q))

RECURSIVE RatSum(_)
RatSum(q) == IF q = <<>> THEN Rat(0, 1) ELSE RatAdd(Head(q), RatSum(Tail(q)))

\* an array of shape (b, d), its b*d entries in row order
Array(shape, data) == [shape |-> shape, data |-> data]
Size(shape) == shape[1] * shape[2]
Shapes == {<<1, 1>>, <<2, 1>>, <<1, 2>>}
Entries == {0, 1}
ArraysOf(shape) == {Array(shape, x) : x \in [1..Size(shape) -> Entries]}
Zeros(shape) == Array(shape, [k \in 1..Size(shape) |-> 0])

\* shapes of logits and predicted_logits: (batch, classes)
LogitShapes == {<<b, c>> : b \in {1, 2}, c \in {2, NumClasses}}

\* the value of (logits.exp() * (logits - predicted_logits)).sum(axis=-1).mean()
\* on the batch; the logits enter the model only through it and their shape
OutputLosses == {Rat(0 - 1, 2), Rat(3, 1)}

\* (abstraction - predicted_abstraction).square().mean()
SquaredErrorMean(a, b) ==
    Rat(SeqSum([k \in 1..Len(a.data) |-> (a.data[k] - b.data[k]) * (a.data[k] - b.data[k])]),
        Len(a.data))

Min(a, b) == IF a < b THEN a ELSE b

\* zip(abstractions[1:], predicted_abstractions)
Zip(abstractions, predicted_abstractions) ==
    [k \in 1..Min(Len(abstractions) - 1, Len(predicted_abstractions)) |->
        <<abstractions[k + 1], predicted_abstractions[k]>>]

\* the assertions of loss_fn, in order
Asserts(in) ==
    /\ Len(in.abstractions) = Len(in.predicted_abstractions)
    /\ in.predicted_abstractions[1].shape = in.abstractions[1].shape
    /\ in.logits_shape = <<in.abstractions[1].shape[1], NumClasses>>
    /\ <<in.abstractions[1].shape[1], NumClasses>> = in.predicted_logits_shape

NoMetrics == [loss |-> Rat(0, 1), output_loss |-> Rat(0, 1), consistency_loss |-> Rat(0, 1)]

\* loss_fn(params): (loss, (output_loss, consistency_loss))
LossFn(in) ==
    LET pairs == Zip(in.abstractions, in.predicted_abstractions)
        output_loss == in.output_loss
        summed == RatSum([k \in 1..Len(pairs) |->
                             SquaredErrorMean(pairs[k][1], pairs[k][2])])
        consistency_loss == RatDiv(summed, Len(in.predicted_abstractions))
    IN  [loss |-> RatAdd(output_loss, consistency_loss),
         output_loss |-> output_loss,
         consistency_loss |-> consistency_loss]

\* apply_model(state, batch, forward_fn): (grads, metrics), or the
\* AssertionError that loss_fn raises inside value_and_grad
ApplyModelOp(in) ==
    IF Asserts(in)
    THEN [status |-> "ok", grads |-> TRUE, metrics |-> LossFn(in)]
    ELSE [status |-> "AssertionError", grads |-> FALSE, metrics |-> NoMetrics]

NotApplied == [status |-> "none", grads |-> FALSE, metrics |-> NoMetrics]

\* the inputs with L reference layers of shape sa and M predicted layers of
\* shape sp; an input the assertions reject is never read further, so one
\* representative of its contents is enough
InputsOf(L, M, sa, sp, ls, pls) ==
    LET shell == [abstractions |-> [k \in 1..L |-> Zeros(sa)],
                  predicted_abstractions |-> [k \in 1..M |-> Zeros(sp)],
                  logits_shape |-> ls, predicted_logits_shape |-> pls,
                  output_loss |-> Rat(0, 1)]
    IN  IF Asserts(shell)
        THEN {[shell EXCEPT !.abstractions = a, !.predicted_abstractions = pa,
                            !.output_loss = o] :
                 a \in [1..L -> ArraysOf(sa)], pa \in [1..M -> ArraysOf(sp)],
                 o \in OutputLosses}
        ELSE {shell}

\* no apply_model call is modelled
InputsOfIdle == [abstractions |-> <<>>, predicted_abstractions |-> <<>>,
                 logits_shape |-> <<0, 0>>, predicted_logits_shape |-> <<0, 0>>,
                 output_loss |-> Rat(0, 1)]

LossIdle ==
    /\ am = InputsOfIdle
    /\ am_out = NotApplied

\* ------------------------------------------------------------------
\* train_epoch and train_and_evaluate (abstractions/train_abstraction.py)
\* ------------------------------------------------------------------
\* the most batches the training loader yields
MaxBatches == 2
\* the largest config.num_epochs
MaxEpochs == 2
\* the largest step of the TrainState a caller hands to train_epoch
MaxStartStep == 2

\* a batch, given by what forward_fn and state.apply_fn yield on it
BatchOf(x, y, classes) ==
    [abstractions |-> <<Zeros(<<1, 1>>), Array(<<1, 1>>, <<x>>)>>,
     predicted_abstractions |-> <<Array(<<1, 1>>, <<y>>), Zeros(<<1, 1>>)>>,
     logits_shape |-> <<1, classes>>, predicted_logits_shape |-> <<1, classes>>,
     output_loss |-> Rat(3, 1)]
\* two batches of a 10-class model with different losses, one of a 2-class model
Batches == {BatchOf(0, 0, NumClasses), BatchOf(1, 0, NumClasses), BatchOf(0, 0, 2)}

SeqsUpTo(S, n) == UNION {[1..k -> S] : k \in 0..n}

\* metrics = {"loss": ..., "output_loss": ..., "consistency_loss": ...}
MetricNames == <<"loss", "output_loss", "consistency_loss">>
MetricOf(metrics, k) ==
    CASE k = "loss" -> metrics.loss
      [] k = "output_loss" -> metrics.output_loss
      [] OTHER -> metrics.consistency_loss

\* a TrainState: the step counter and the gradients applied to the params
TrainState(step, params) == [step |-> step, params |-> params]

\* state.apply_gradients(grads=grads): a new TrainState, one step further
UpdateModel(h, id, grads) ==
    [heap |-> Append(h, TrainState(h[id].step + 1, Append(h[id].params, grads))),
     state |-> Len(h) + 1]

\* epoch_metrics[k].append(v) on a defaultdict(list)
AppendOverwriting(d, k, v) ==
    [x \in DOMAIN d \cup {k} |-> IF x = k THEN <<v>> ELSE d[x]]

AppendMetric(d, k, v) ==
    [x \in DOMAIN d \cup {k} |->
        IF x = k THEN (IF k \in DOMAIN d THEN Append(d[k], v) ELSE <<v>>) ELSE d[x]]

RECURSIVE AppendMetrics(_, _, _)
AppendMetrics(d, metrics, names) ==
    IF names = <<>> THEN d
    ELSE AppendMetrics(AppendMetric(d, Head(names), MetricOf(metrics, Head(names))),
                       metrics, Tail(names))

\* metrics_logger.report_scalar(title, series, value, iteration)
Report(title, series, value, iteration) ==
    [title |-> title, series |-> series, value |-> value, iteration |-> iteration]

\* np.mean(v)
Mean(v) == RatDiv(RatSum(v), Len(v))

EmptyDict == [x \in {} |-> <<>>]

NoEpoch == [pc |-> "idle", caller |-> "", state |-> 0, entry |-> 0,
            entry_value |-> TrainState(0, <<>>), pos |-> 0,
            epoch_metrics |-> EmptyDict, train_metrics |-> EmptyDict,
            calls |-> <<>>, sink0 |-> 0, exc |-> "none"]

NoRun == [pc |-> "idle", epoch |-> 0, epochs_run |-> 0, state |-> 0,
          metrics_logger |-> "", exc |-> "none"]

NoConfig == [debug |-> FALSE, no_clearml |-> FALSE, num_epochs |-> 0,
             loadable |-> FALSE]

TrainIdle ==
    /\ config = NoConfig
    /\ train_loader = <<>>
    /\ test_loader = <<>>
    /\ heap = <<>>
    /\ tr = NoRun
    /\ ep = NoEpoch
    /\ sink = <<>>

\* train_epoch(state, train_loader, rng, metrics_logger, forward_fn) is entered
EnterEpoch(caller, id) ==
    [NoEpoch EXCEPT !.pc = "running", !.caller = caller, !.state = id, !.entry = id,
                    !.entry_value = heap[id], !.sink0 = Len(sink)]

\* one iteration of "for batch in train_loader"
TrainBatch ==
    /\ ep.pc = "running"
    /\ ep.pos < Len(train_loader)
    /\ LET batch == train_loader[ep.pos + 1]
           applied == ApplyModelOp(batch)
           updated == UpdateModel(heap, ep.state, ep.pos + 1)
           step == updated.heap[updated.state].step
       IN  IF applied.status # "ok"
           THEN /\ ep' = [ep EXCEPT !.pc = "raised", !.exc = applied.status,
                                    !.calls = Append(@, <<"apply_model", ep.pos + 1>>)]
                /\ tr' = IF ep.caller = "train_and_evaluate"
                         THEN [tr EXCEPT !.pc = "raised", !.exc = applied.status]
                         ELSE tr
                /\ UNCHANGED <<heap, sink>>
           ELSE /\ heap' = updated.heap
                /\ ep' = [ep EXCEPT
                            !.state = updated.state,
                            !.pos = @ + 1,
                            !.calls = @ \o <<<<"apply_model", ep.pos + 1>>,
                                             <<"update_model", ep.pos + 1>>>>,
                            !.epoch_metrics =
                                AppendMetrics(@, applied.metrics, MetricNames)]
                /\ sink' = sink \o
                      [j \in 1..Len(MetricNames) |->
                          Report("Training", MetricNames[j],
                                 MetricOf(applied.metrics, MetricNames[j]), step)]
                /\ UNCHANGED tr
    /\ UNCHANGED <<config, train_loader, test_loader, storedVars, lossVars, dataVars>>

\* the loader is exhausted: train_metrics and return state, train_metrics
EpochReturn ==
    /\ ep.pc = "running"
    /\ ep.pos = Len(train_loader)
    /\ ep' = [ep EXCEPT !.pc = "returned",
                        !.train_metrics = [k \in DOMAIN ep.epoch_metrics |->
                                              Mean(ep.epoch_metrics[k])]]
    /\ tr' = IF ep.caller = "train_and_evaluate"
             THEN [tr EXCEPT !.pc = "eval", !.state = ep.state,
                             !.epochs_run = @ + 1]
             ELSE tr
    /\ UNCHANGED <<config, train_loader, test_loader, heap, sink, storedVars, lossVars, dataVars>>

\* train_and_evaluate up to its loop: the debug switches, the logger, the
\* loaders, create_train_state and utils.load(config.model_path)
Setup ==
    /\ tr.pc = "setup"
    /\ IF config.debug
       THEN /\ tr' = [tr EXCEPT !.pc = "raised", !.exc = "NameError"]
            /\ UNCHANGED heap
       ELSE IF ~config.loadable
       THEN /\ tr' = [tr EXCEPT !.pc = "raised", !.exc = "FileNotFoundError",
                                !.metrics_logger =
                                    IF config.no_clearml THEN "DummyLogger" ELSE "clearml"]
            /\ heap' = Append(heap, TrainState(0, <<>>))
       ELSE /\ tr' = [tr EXCEPT !.pc = "loop", !.state = Len(heap) + 1,
                                !.metrics_logger =
                                    IF config.no_clearml THEN "DummyLogger" ELSE "clearml"]
            /\ heap' = Append(heap, TrainState(0, <<>>))
    /\ UNCHANGED <<config, train_loader, test_loader, ep, sink, storedVars, lossVars, dataVars>>

\* for epoch in range(1, config.num_epochs + 1): the epoch is reported and
\* train_epoch is called; after the last epoch, return state
LoopHead ==
    /\ tr.pc = "loop"
    /\ IF tr.epoch < config.num_epochs
       THEN /\ tr' = [tr EXCEPT !.pc = "in_train_epoch", !.epoch = @ + 1]
            /\ sink' = Append(sink, Report("epoch", "epoch", tr.epoch + 1,
                                           heap[tr.state].step))
            /\ ep' = [EnterEpoch("train_and_evaluate", tr.state) EXCEPT
                         !.sink0 = Len(sink) + 1]
       ELSE /\ tr' = [tr EXCEPT !.pc = "returned"]
            /\ UNCHANGED <<sink, ep>>
    /\ UNCHANGED <<config, train_loader, test_loader, heap, storedVars, lossVars, dataVars>>

\* test_batch = next(iter(test_loader)); apply_model(state, test_batch):
\* the call leaves out forward_fn, which apply_model requires
EvaluateHeldOut ==
    /\ tr.pc = "eval"
    /\ tr' = [tr EXCEPT !.pc = "raised",
                        !.exc = IF test_loader = <<>> THEN "StopIteration"
                                ELSE "TypeError"]
    /\ UNCHANGED <<config, train_loader, test_loader, heap, ep, sink,
                   storedVars, lossVars, dataVars>>

\* ------------------------------------------------------------------
\* BackdoorData (cupbearer/data/backdoor_data.py)
\* ------------------------------------------------------------------
\* how deep BackdoorData configs nest through their original field
MaxNest == 1
\* how many get_transforms calls, stores and reloads a run makes
MaxOps == 3

Backdoors == {"B1", "B2"}
\* the transforms lists a dataset config is given
TransformLists == {<<>>, <<"T1">>, <<"T1", "T2">>}

\* a DatasetConfig; original is <<>> or holds the one wrapped config
Dataset(cls, original, backdoor, transforms, no_augmentation) ==
    [cls |-> cls, original |-> original, backdoor |-> backdoor,
     transforms |-> transforms, no_augmentation |-> no_augmentation]

\* BackdoorData.__post_init__: no_augmentation is passed down to original
PostInit(self) ==
    IF self.no_augmentation
    THEN [self EXCEPT !.original[1].no_augmentation = TRUE]
    ELSE self

\* BackdoorData(original=..., backdoor=..., ...): the dataclass constructor
NewBackdoorData(original, backdoor, transforms, no_augmentation) ==
    PostInit(Dataset("BackdoorData", <<original>>, backdoor, transforms,
                     no_augmentation))

RECURSIVE DatasetConfigs(_)
\* the dataset configs nesting at most n deep
DatasetConfigs(n) ==
    {Dataset("Dataset", <<>>, "", t, a) : t \in TransformLists, a \in BOOLEAN}
    \cup (IF n = 0 THEN {}
          ELSE {NewBackdoorData(o, b, t, a) :
                   o \in DatasetConfigs(n - 1), b \in Backdoors,
                   t \in TransformLists, a \in BOOLEAN})

\* DatasetConfig.get_transforms: the config's own transforms
DatasetGetTransforms(self) == self.transforms

RECURSIVE GetTransformsAliasing(_)
\* get_transforms with "transforms = super().get_transforms()" for its first
\* statement: the += then extend the config's own list
GetTransformsAliasing(self) ==
    IF self.cls = "BackdoorData"
    THEN LET original == GetTransformsAliasing(self.original[1])
             transforms == DatasetGetTransforms(self) \o original.value
                              \o <<self.backdoor>>
         IN  [value |-> transforms,
              self |-> [self EXCEPT !.original = <<original.self>>,
                                    !.transforms = transforms]]
    ELSE [value |-> DatasetGetTransforms(self), self |-> self]

RECURSIVE GetTransforms(_)
\* self.get_transforms(): the list returned, and self after the call
GetTransforms(self) ==
    IF self.cls = "BackdoorData"
    THEN LET original == GetTransforms(self.original[1])
             self1 == [self EXCEPT !.original = <<original.self>>]
             t0 == <<>>
             t1 == t0 \o original.value
             t2 == t1 \o DatasetGetTransforms(self1)
             t3 == t2 \o <<self1.backdoor>>
         IN  [value |-> t3, self |-> self1]
    ELSE [value |-> DatasetGetTransforms(self), self |-> self]

\* the value stored under key in a document
Lookup(doc, key) == doc[CHOOSE i \in DOMAIN doc : doc[i][1] = key][2]

RECURSIVE Serialize(_)
\* the config.yaml document of a config: its class tag, then its fields
Serialize(cfg) ==
    <<<<"_type_", cfg.cls>>,
      <<"transforms", cfg.transforms>>,
      <<"no_augmentation", cfg.no_augmentation>>>>
    \o (IF cfg.cls = "BackdoorData"
        THEN <<<<"original", Serialize(cfg.original[1])>>,
               <<"backdoor", cfg.backdoor>>>>
        ELSE <<>>)

RECURSIVE Deserialize(_)
\* the config a document is loaded as: the tagged class is constructed from
\* the fields, nested configs first
Deserialize(doc) ==
    IF Lookup(doc, "_type_") = "BackdoorData"
    THEN NewBackdoorData(Deserialize(Lookup(doc, "original")),
                         Lookup(doc, "backdoor"),
                         Lookup(doc, "transforms"),
                         Lookup(doc, "no_augmentation"))
    ELSE Dataset(Lookup(doc, "_type_"), <<>>, "", Lookup(doc, "transforms"),
                 Lookup(doc, "no_augmentation"))

NoData == Dataset("None", <<>>, "", <<>>, FALSE)
NotCalled == [called |-> FALSE, value |-> <<>>, before |-> NoData, after |-> NoData]

DataIdle ==
    /\ dataset = NoData
    /\ dataset0 = NoData
    /\ disk = <<>>
    /\ got = NotCalled
    /\ ops = 0

\* a call of dataset.get_transforms()
CallGetTransforms ==
    /\ dataset # NoData /\ ops < MaxOps
    /\ LET r == GetTransforms(dataset)
       IN  /\ got' = [called |-> TRUE, value |-> r.value,
                      before |-> dataset, after |-> r.self]
           /\ dataset' = r.self
    /\ ops' = ops + 1
    /\ UNCHANGED <<dataset0, disk, storedVars, lossVars, trainVars>>

\* the config is stored to disk
Store ==
    /\ dataset # NoData /\ ops < MaxOps
    /\ disk' = Serialize(dataset)
    /\ ops' = ops + 1
    /\ UNCHANGED <<dataset, dataset0, got, storedVars, lossVars, trainVars>>

\* the stored config is loaded and takes the place of the one in memory
Reload ==
    /\ disk # <<>> /\ ops < MaxOps
    /\ dataset' = Deserialize(disk)
    /\ ops' = ops + 1
    /\ UNCHANGED <<dataset0, disk, got, storedVars, lossVars, trainVars>>

\* ------------------------------------------------------------------
\* The call stack
\* ------------------------------------------------------------------
Frame(fn, path) == [fn |-> fn, path |-> path, pc |-> "load_config", cfg |-> NoneObj]

Depth == Len(stack)
Top == stack[Depth]
Idle == stack = <<>> /\ exc = "none" /\ result.status = "none"
Running(fn, pc) == Depth > 0 /\ exc = "none" /\ Top.fn = fn /\ Top.pc = pc

SetTop(f) == [stack EXCEPT ![Depth] = f]
Event(ev, obj, note) ==
    [ev |-> ev, frame |-> Depth, path |-> Top.path, obj |-> obj, note |-> note]

\* a call of the entry point fn at path p from outside
Enter(fn, p) ==
    /\ Idle
    /\ stack' = <<Frame(fn, p)>>
    /\ result' = [result EXCEPT !.fn = fn, !.path = p]
    /\ UNCHANGED <<fs, exc, log, lc>>
    /\ UNCHANGED <<lossVars, trainVars, dataVars>>

\* StoredDetector(path=p).build(model, save_dir)
Build(p) == Enter("StoredDetector.build", p)

\* StoredModel(path=p).build_model()
BuildModel(p) == Enter("StoredModel.build_model", p)

\* a call of load_config from outside
CallLoadConfig(p, name, expected_type) ==
    /\ Idle
    /\ LET r == LoadConfig(fs, p, name, expected_type)
       IN  /\ lc' = [called |-> TRUE, path |-> p, name |-> name,
                     expected_type |-> expected_type, out |-> r]
           /\ result' = [status |-> IF r.raised THEN "raised" ELSE "returned",
                         exc |-> r.exc, fn |-> "load_config", path |-> p]
    /\ UNCHANGED <<fs, stack, exc, log>>
    /\ UNCHANGED <<lossVars, trainVars, dataVars>>

\* the first statement of both builders: load_config(self.path, name, kind)
LoadStep(fn, name, expected_type, next) ==
    /\ Running(fn, "load_config")
    /\ LET r == LoadConfig(fs, Top.path, name, expected_type)
       IN  /\ log' = Append(log, Event("load_config", r.value, r.exc))
           /\ IF r.raised
              THEN /\ exc' = r.exc
                   /\ UNCHANGED stack
              ELSE /\ stack' = SetTop([Top EXCEPT !.cfg = r.value, !.pc = next])
                   /\ UNCHANGED exc
    /\ UNCHANGED <<fs, result, lc>>
    /\ UNCHANGED <<lossVars, trainVars, dataVars>>

DetLoadConfig == LoadStep("StoredDetector.build", "detector", "DetectorConfig", "guard")

\* the self-reference check of StoredDetector.build
DetGuardMissing ==
    /\ Running("StoredDetector.build", "guard")
    /\ stack' = SetTop([Top EXCEPT !.pc = "build"])
    /\ UNCHANGED <<fs, exc, result, log, lc>>
    /\ UNCHANGED <<lossVars, trainVars, dataVars>>

DetGuard ==
    /\ Running("StoredDetector.build", "guard")
    /\ IF IsInstance(Top.cfg, "StoredDetector") /\ Top.cfg.path = Top.path
       THEN /\ exc' = "RuntimeError"
            /\ log' = Append(log, Event("raise", Top.cfg, "RuntimeError"))
            /\ UNCHANGED stack
       ELSE /\ stack' = SetTop([Top EXCEPT !.pc = "build"])
            /\ UNCHANGED <<exc, log>>
    /\ UNCHANGED <<fs, result, lc>>
    /\ UNCHANGED <<lossVars, trainVars, dataVars>>

\* cfg.<method>(): dispatch on the class of the loaded config. stored is the
\* class whose method is the builder fn itself, concrete the classes that
\* build an object directly; any other object has no such method.
CallBuild(fn, stored, concrete, next) ==
    /\ Running(fn, "build")
    /\ log' = Append(log, Event("build", Top.cfg, ""))
    /\ IF Top.cfg.cls = stored
       THEN IF Depth >= RecursionLimit
            THEN /\ exc' = "RecursionError"
                 /\ UNCHANGED stack
            ELSE /\ stack' = Append(SetTop([Top EXCEPT !.pc = "in_build"]),
                                    Frame(fn, Top.cfg.path))
                 /\ UNCHANGED exc
       ELSE IF Top.cfg.cls \in concrete
            THEN \E ok \in BOOLEAN :
                    IF ok
                    THEN /\ stack' = SetTop([Top EXCEPT !.pc = next])
                         /\ UNCHANGED exc
                    ELSE /\ exc' = "BuildError"
                         /\ UNCHANGED stack
            ELSE /\ exc' = "AttributeError"
                 /\ UNCHANGED stack
    /\ UNCHANGED <<fs, result, lc>>
    /\ UNCHANGED <<lossVars, trainVars, dataVars>>

\* detector = detector_cfg.build(model, save_dir)
DetBuildInner ==
    CallBuild("StoredDetector.build", "StoredDetector",
              {"ActivationBasedDetectorConfig"}, "load_weights")

\* try: detector.load_weights(self.path / "detector")
\* except FileNotFoundError: logger.warning(...)
\* found is what is at <path>/detector when load_weights looks
DetLoadWeightsSilent(found) ==
    /\ Running("StoredDetector.build", "load_weights")
    /\ log' = Append(log, Event("load_weights", Top.cfg, found))
    /\ IF found = "corrupt"
       THEN /\ exc' = "WeightsError"
            /\ UNCHANGED stack
       ELSE /\ stack' = SetTop([Top EXCEPT !.pc = "return"])
            /\ UNCHANGED exc
    /\ UNCHANGED <<fs, result, lc>>
    /\ UNCHANGED <<lossVars, trainVars, dataVars>>

DetLoadWeights(found) ==
    /\ Running("StoredDetector.build", "load_weights")
    /\ CASE found = "present" ->
              /\ log' = Append(log, Event("load_weights", Top.cfg, found))
              /\ stack' = SetTop([Top EXCEPT !.pc = "return"])
              /\ UNCHANGED exc
         [] found = "absent" ->
              /\ log' = log \o <<Event("load_weights", Top.cfg, found),
                                 Event("warning", Top.cfg, "")>>
              /\ stack' = SetTop([Top EXCEPT !.pc = "return"])
              /\ UNCHANGED exc
         [] OTHER ->
              /\ log' = Append(log, Event("load_weights", Top.cfg, found))
              /\ exc' = "WeightsError"
              /\ UNCHANGED stack
    /\ UNCHANGED <<fs, result, lc>>
    /\ UNCHANGED <<lossVars, trainVars, dataVars>>

ModelLoadConfig == LoadStep("StoredModel.build_model", "model", "ModelConfig", "build")

\* return model_cfg.build_model()
ModelBuildInner ==
    CallBuild("StoredModel.build_model", "StoredModel", {"MLP", "CNN"}, "return")

\* the pc of a caller after the call it waits in has returned
AfterCall(fn) == IF fn = "StoredDetector.build" THEN "load_weights" ELSE "return"

\* return detector / return of model_cfg.build_model()
Return ==
    /\ Depth > 0 /\ exc = "none" /\ Top.pc = "return"
    /\ log' = Append(log, Event("return", Top.cfg, ""))
    /\ IF Depth = 1
       THEN /\ stack' = <<>>
            /\ result' = [result EXCEPT !.status = "returned"]
       ELSE /\ stack' = [SubSeq(stack, 1, Depth - 1) EXCEPT
                            ![Depth - 1].pc = AfterCall(stack[Depth - 1].fn)]
            /\ UNCHANGED result
    /\ UNCHANGED <<fs, exc, lc>>
    /\ UNCHANGED <<lossVars, trainVars, dataVars>>

\* an exception leaves the frame it is in: no frame has a handler for it
\* (the only handler is the one around load_weights)
Unwind ==
    /\ Depth > 0 /\ exc # "none"
    /\ log' = Append(log, Event("unwind", Top.cfg, exc))
    /\ stack' = SubSeq(stack, 1, Depth - 1)
    /\ IF Depth = 1
       THEN /\ result' = [result EXCEPT !.status = "raised", !.exc = exc]
            /\ exc' = "none"
       ELSE UNCHANGED <<result, exc>>
    /\ UNCHANGED <<fs, lc>>
    /\ UNCHANGED <<lossVars, trainVars, dataVars>>

ExpectedTypes == {"ScriptConfig", "DetectorConfig", "ModelConfig"}

Init ==
    /\ fs \in [Paths -> FileContents]
    /\ StoredStart
    /\ LossIdle
    /\ TrainIdle
    /\ DataIdle

Next ==
    \/ \E p \in Paths : Build(p)
    \/ \E p \in Paths : BuildModel(p)
    \/ \E p \in Paths, name \in {"", "detector", "model"}, t \in ExpectedTypes :
          CallLoadConfig(p, name, t)
    \/ DetLoadConfig
    \/ DetGuard
    \/ DetBuildInner
    \/ \E found \in WeightStates : DetLoadWeights(found)
    \/ ModelLoadConfig
    \/ ModelBuildInner
    \/ Return
    \/ Unwind

Spec == Init /\ [][Next]_vars

\* ---- apply_model called once on an arbitrary input ----
ApplyModel ==
    /\ am_out.status = "none"
    /\ am # InputsOfIdle
    /\ am_out' = ApplyModelOp(am)
    /\ UNCHANGED <<am, storedVars, trainVars, dataVars>>

LossInit ==
    /\ \E L \in 1..MaxLayers, M \in 1..MaxLayers, sa \in Shapes, sp \in Shapes,
          ls \in LogitShapes, pls \in LogitShapes :
          am \in InputsOf(L, M, sa, sp, ls, pls)
    /\ am_out = NotApplied
    /\ StoredIdle
    /\ TrainIdle
    /\ DataIdle

LossNext == ApplyModel

SpecLoss == LossInit /\ [][LossNext]_vars

\* ---- train_epoch called on a TrainState at some step, and
\* ---- train_and_evaluate called on a config ----
TrainInit ==
    /\ train_loader \in SeqsUpTo(Batches, MaxBatches)
    /\ sink = <<>>
    /\ \/ \* a caller of train_epoch
          /\ config = NoConfig
          /\ test_loader = <<>>
          /\ \E s \in 0..MaxStartStep : heap = <<TrainState(s, [k \in 1..s |-> 0])>>
          /\ tr = NoRun
          /\ ep = [NoEpoch EXCEPT !.pc = "running", !.caller = "caller", !.state = 1,
                                  !.entry = 1, !.entry_value = heap[1]]
       \/ \* a caller of train_and_evaluate
          /\ config \in [debug : BOOLEAN, no_clearml : BOOLEAN,
                         num_epochs : 0..MaxEpochs, loadable : BOOLEAN]
          /\ test_loader \in SeqsUpTo(Batches, 1)
          /\ heap = <<>>
          /\ tr = [NoRun EXCEPT !.pc = "setup"]
          /\ ep = NoEpoch
    /\ StoredIdle
    /\ LossIdle
    /\ DataIdle

TrainNext ==
    \/ TrainBatch
    \/ EpochReturn
    \/ Setup
    \/ LoopHead
    \/ EvaluateHeldOut

SpecTrain == TrainInit /\ [][TrainNext]_vars

\* ---- a BackdoorData config that is called, stored and reloaded ----
DataInit ==
    /\ dataset \in {NewBackdoorData(o, b, t, a) :
                    o \in DatasetConfigs(MaxNest), b \in Backdoors,
                    t \in TransformLists, a \in BOOLEAN}
    /\ dataset0 = dataset
    /\ disk = <<>>
    /\ got = NotCalled
    /\ ops = 0
    /\ StoredIdle
    /\ LossIdle
    /\ TrainIdle

DataNext ==
    \/ CallGetTransforms
    \/ Store
    \/ Reload

SpecData == DataInit /\ [][DataNext]_vars

\* ------------------------------------------------------------------
\* Reading the log
\* ------------------------------------------------------------------
\* Within one top-level call every depth is entered at most once (a frame
\* makes one nested call), so a depth names a call.
Frames == 1..RecursionLimit
Events(d, ev) == {i \in DOMAIN log : log[i].frame = d /\ log[i].ev = ev}
Count(d, ev) == Cardinality(Events(d, ev))
AllEvents(ev) == {i \in DOMAIN log : log[i].ev = ev}
\* the call at depth d is over
FrameDone(d) == Events(d, "return") # {} \/ Events(d, "unwind") # {}
\* the call at depth d ended by raising e
FrameRaised(d, e) == \E i \in Events(d, "unwind") : log[i].note = e
\* load_config of the call at depth d returned entry i's config
Loaded(d, i) == i \in Events(d, "load_config") /\ log[i].note = "none"
InDetector == result.fn = "StoredDetector.build"
InModel == result.fn = "StoredModel.build_model"
SelfPointer(e, cls) == e.obj.cls = cls /\ e.obj.path = e.path

\* C1: in every StoredDetector.build call, a loaded config that is a
\* StoredDetector with the call's own path makes the call raise RuntimeError
\* without calling build on it and without calling load_weights; any other
\* loaded config has its build called exactly once (at most once while the
\* call is running, exactly once when it is over).
C1_SelfReferenceGuard ==
    InDetector =>
        \A d \in Frames : \A i \in DOMAIN log :
            Loaded(d, i) =>
                IF SelfPointer(log[i], "StoredDetector")
                THEN /\ Count(d, "build") = 0
                     /\ Count(d, "load_weights") = 0
                     /\ Count(d, "return") = 0
                     /\ FrameDone(d) => FrameRaised(d, "RuntimeError")
                ELSE /\ Count(d, "build") <= 1
                     /\ FrameDone(d) => Count(d, "build") = 1

\* a top-level build of a self-pointing stored detector has raised
C1_Witness ==
    /\ InDetector /\ result.status = "raised" /\ result.exc = "RuntimeError"
    /\ fs[result.path].field = "detector"
    /\ fs[result.path].value = Obj("StoredDetector", result.path)
    /\ Len(log) = 3

\* C2: StoredModel.build_model at a path whose stored 'model' sub-config is
\* a StoredModel with that same path does not recurse until the interpreter
\* runs out of stack: the nesting stays below the recursion limit.
C2_SelfReferenceBounded ==
    (/\ InModel
     /\ fs[result.path].field = "model"
     /\ fs[result.path].value = Obj("StoredModel", result.path))
        => Depth < RecursionLimit

\* C10: the depth of nested StoredDetector.build calls never exceeds the
\* number of stored paths.
C10_DepthBoundedByPaths == InDetector => Depth <= NumPaths

\* C3 as stated: a finished top-level build whose weights file was absent
\* has returned with exactly one warning in the whole log, and a top-level
\* build that failed in load_config or in the inner build logged none.
C3_OneWarningOverall ==
    (InDetector /\ result.status # "none") =>
        /\ (\E i \in Events(1, "load_weights") : log[i].note = "absent")
              => (result.status = "returned"
                  /\ Cardinality(AllEvents("warning")) = 1)
        /\ (result.status = "raised" /\ Count(1, "load_weights") = 0)
              => AllEvents("warning") = {}

\* C3 amended: every StoredDetector.build call whose own load_weights finds
\* no file logs exactly one warning itself and returns instead of raising;
\* over the whole build there is one warning per call whose weights were
\* absent; a call in which load_config or the inner build failed never
\* reaches load_weights, logs no warning itself and ends by raising that
\* same exception.
C3_OneWarningPerCall ==
    InDetector =>
        /\ \A d \in Frames :
             /\ (\E i \in Events(d, "load_weights") : log[i].note = "absent")
                   => /\ Count(d, "warning") = 1
                      /\ Count(d, "unwind") = 0
                      /\ (result.status # "none" /\ d = 1)
                            => result.status = "returned"
             /\ (\A i \in Events(d, "load_weights") : log[i].note # "absent")
                   => Count(d, "warning") = 0
             /\ \A e \in {"FileNotFoundError", "ValueError", "BuildError",
                          "RuntimeError", "RecursionError", "WeightsError"} :
                   (\/ \E i \in Events(d, "load_config") : log[i].note = e
                    \/ (exc = e /\ Depth = d /\ Top.pc = "build")
                    \/ FrameRaised(d + 1, e))
                      => /\ Count(d, "load_weights") = 0
                         /\ Count(d, "warning") = 0
                         /\ Count(d, "return") = 0
                         /\ FrameDone(d) => FrameRaised(d, e)
        /\ Cardinality(AllEvents("warning"))
              = Cardinality({i \in AllEvents("load_weights") :
                                log[i].note = "absent"})

\* a stored detector pointing at a second stored path, weights absent at
\* both, has been built: two warnings
C3_Witness ==
    /\ InDetector /\ result.status = "returned"
    /\ \E i \in Events(1, "load_weights") : log[i].note = "absent"
    /\ \E i \in Events(2, "load_weights") : log[i].note = "absent"
    /\ Cardinality(AllEvents("warning")) = 2

\* C8: load_config returns only instances of expected_type: with no name the
\* whole config, with a name the field's value; it raises when the field is
\* missing or its value is of another type. Neither builder ever calls
\* build on a loaded config that is not of its kind.
C8_LoadConfigTyped ==
    /\ lc.called =>
         LET file == fs[lc.path]
         IN  /\ ~lc.out.raised =>
                   /\ IsInstance(lc.out.value, lc.expected_type)
                   /\ lc.out.value = IF lc.name = "" THEN Obj(file.cls, 0)
                                     ELSE file.value
                   /\ file.exists
                   /\ lc.name # "" => file.field = lc.name
             /\ (file.exists /\ lc.name # "" /\ file.field # lc.name)
                   => (lc.out.raised /\ lc.out.exc = "ValueError")
             /\ (file.exists /\ lc.name # "" /\ file.field = lc.name
                 /\ lc.expected_type \notin Ancestors(file.value.cls))
                   => (lc.out.raised /\ lc.out.exc = "ValueError")
             /\ (file.exists /\ lc.name = ""
                 /\ lc.expected_type \notin Ancestors(file.cls))
                   => (lc.out.raised /\ lc.out.exc = "ValueError")
    /\ \A i \in AllEvents("build") :
         /\ InDetector =>
              log[i].obj.cls \in {"StoredDetector", "ActivationBasedDetectorConfig"}
         /\ InModel => log[i].obj.cls \in {"StoredModel", "MLP", "CNN"}

\* load_config was asked for the detector of a config whose detector field
\* holds a model config, and raised
C8_Witness ==
    /\ lc.called /\ lc.name = "detector" /\ lc.expected_type = "DetectorConfig"
    /\ fs[lc.path].field = "detector" /\ fs[lc.path].value = Obj("MLP", 0)
    /\ lc.out.raised

\* C4: when apply_model succeeds on L >= 2 reference and L predicted layers,
\* consistency_loss is the mean, over the L-1 pairs (reference layer i+1,
\* predicted layer i), of the pair's mean squared error, and loss is
\* output_loss + consistency_loss.
C4_ConsistencyIsMeanOfPairs ==
    LET L == Len(am.abstractions)
        m == am_out.metrics
    IN  (am_out.status = "ok" /\ L >= 2) =>
            /\ RatEq(m.consistency_loss,
                     RatDiv(RatSum([i \in 1..(L - 1) |->
                                       SquaredErrorMean(am.abstractions[i + 1],
                                                        am.predicted_abstractions[i])]),
                            L - 1))
            /\ RatEq(m.loss, RatAdd(m.output_loss, m.consistency_loss))

\* the precondition of apply_model: as many predicted as reference layers,
\* of one shape, and logits and predicted_logits both of shape
\* (batch_size, num_classes), whatever num_classes is
ValidPair(in) ==
    /\ Len(in.abstractions) = Len(in.predicted_abstractions)
    /\ in.predicted_abstractions[1].shape = in.abstractions[1].shape
    /\ in.logits_shape = in.predicted_logits_shape
    /\ in.logits_shape[1] = in.abstractions[1].shape[1]

\* C7: apply_model accepts every valid model/predictor pair, for any
\* num_classes, and raises AssertionError, giving neither gradients nor
\* metrics, on every other input.
C7_AcceptsEveryValidPair ==
    am_out.status # "none" =>
        IF ValidPair(am)
        THEN am_out.status = "ok" /\ am_out.grads
        ELSE /\ am_out.status = "AssertionError"
             /\ ~am_out.grads
             /\ am_out.metrics = NoMetrics

\* the batches apply_model accepts
Accepted(loader) == \A i \in DOMAIN loader : ApplyModelOp(loader[i]).status = "ok"

\* C5: with num_epochs = N, loadable reference parameters and non-empty
\* loaders of batches apply_model accepts, train_and_evaluate ends by
\* returning the TrainState after exactly N epochs.
C5_RunsAllEpochsAndReturns ==
    (/\ tr.pc \in {"returned", "raised"}
     /\ ~config.debug /\ config.loadable
     /\ train_loader # <<>> /\ test_loader # <<>>
     /\ Accepted(train_loader) /\ Accepted(test_loader))
        => (tr.pc = "returned" /\ tr.epochs_run = config.num_epochs)

\* C6: when train_epoch returns from a loader of N batches entered with a
\* TrainState at step s: apply_model then update_model were called once per
\* batch in loader order; the returned state is at step s + N; every metric
\* has N accumulated values, those of the batches in order; batch i's
\* metrics were reported with iteration s + i; the returned metrics are the
\* means; and the TrainState passed in is as it was (it is so at every
\* moment of the epoch).
C6_TrainEpoch ==
    LET N == Len(train_loader)
        s == ep.entry_value.step
        names == {MetricNames[j] : j \in DOMAIN MetricNames}
        value(i, k) == MetricOf(ApplyModelOp(train_loader[i]).metrics, k)
    IN  /\ ep.pc # "idle" => heap[ep.entry] = ep.entry_value
        /\ ep.pc = "returned" =>
             /\ Len(ep.calls) = 2 * N
             /\ \A i \in 1..N : /\ ep.calls[2 * i - 1] = <<"apply_model", i>>
                                /\ ep.calls[2 * i] = <<"update_model", i>>
             /\ heap[ep.state].step = s + N
             /\ heap[ep.state].params = ep.entry_value.params \o [i \in 1..N |-> i]
             /\ DOMAIN ep.epoch_metrics = (IF N = 0 THEN {} ELSE names)
             /\ \A k \in DOMAIN ep.epoch_metrics :
                   /\ Len(ep.epoch_metrics[k]) = N
                   /\ \A i \in 1..N : ep.epoch_metrics[k][i] = value(i, k)
             /\ Len(sink) = ep.sink0 + Len(MetricNames) * N
             /\ \A i \in 1..N : \A j \in DOMAIN MetricNames :
                   sink[ep.sink0 + Len(MetricNames) * (i - 1) + j]
                      = Report("Training", MetricNames[j], value(i, MetricNames[j]), s + i)
             /\ DOMAIN ep.train_metrics = DOMAIN ep.epoch_metrics
             /\ \A k \in DOMAIN ep.train_metrics :
                   RatEq(ep.train_metrics[k],
                         RatDiv(RatSum([i \in 1..N |-> value(i, k)]), N))

\* train_epoch has returned from two batches with different losses, entered
\* at step 1
C6_Witness ==
    /\ ep.pc = "returned"
    /\ Len(train_loader) = 2
    /\ train_loader[1] # train_loader[2]
    /\ ep.entry_value.step = 1
    /\ heap[ep.state].step = 3

\* how often x occurs in the list q
Occurrences(x, q) == Cardinality({i \in DOMAIN q : q[i] = x})

\* what get_transforms is to return: the original's transforms, then the
\* config's own, then the backdoor
ExpectedTransforms ==
    GetTransforms(dataset0.original[1]).value \o dataset0.transforms \o <<dataset0.backdoor>>

\* the transforms field is as constructed, in memory and on disk
TransformsKept ==
    /\ dataset.transforms = dataset0.transforms
    /\ disk # <<>> => Lookup(disk, "transforms") = dataset0.transforms

\* C9 as stated: every get_transforms call, whatever calls, stores and
\* reloads came before it, returns the original's transforms, then the own
\* transforms, then the backdoor, which is last and occurs exactly once; the
\* call leaves every field of the config as it was, and the transforms field
\* stays as constructed, in memory and on disk.
C9_BackdoorExactlyOnce ==
    /\ TransformsKept
    /\ got.called =>
         /\ got.after = got.before
         /\ got.value = ExpectedTransforms
         /\ got.value[Len(got.value)] = dataset0.backdoor
         /\ Occurrences(dataset0.backdoor, got.value) = 1

\* C9 amended: as above, but the backdoor occurs once more than in the
\* original's transforms and the own transforms together: the call adds it
\* exactly once.
C9_BackdoorAddedOnce ==
    /\ TransformsKept
    /\ got.called =>
         /\ got.after = got.before
         /\ got.value = ExpectedTransforms
         /\ got.value[Len(got.value)] = dataset0.backdoor
         /\ Occurrences(dataset0.backdoor, got.value)
               = 1 + Occurrences(dataset0.backdoor, GetTransforms(dataset0.original[1]).value)
                   + Occurrences(dataset0.backdoor, dataset0.transforms)

\* a config wrapping a BackdoorData with the same backdoor was called,
\* stored, reloaded and called again
C9_Witness ==
    /\ got.called /\ ops = 3 /\ disk # <<>>
    /\ dataset0.original[1].cls = "BackdoorData"
    /\ dataset0.original[1].backdoor = dataset0.backdoor
    /\ Occurrences(dataset0.backdoor, got.value) = 2

====
